---- MODULE Spec2Model ----
(***************************************************************************)
(* A model of flask_cloudflare.py: the CloudFlare extension object (the    *)
(* per-application-context API handle and its HTTP session), the API       *)
(* endpoint builder, and the APIQuery object (filter, values, first, all,  *)
(* execute, the paging generator __iter__ and send).                       *)
(*                                                                         *)
(* Encoding of Python values:                                              *)
(*   - a dict that the code builds key by key (params, headers, payload)   *)
(*     is a sequence of <<key, value>> pairs in insertion order;           *)
(*   - a parsed JSON object is a record whose DOMAIN is the set of keys    *)
(*     that are present;                                                   *)
(*   - None, where an object id is expected, is 0;                         *)
(*   - an API item (a JSON object such as a zone) is a number of Items.    *)
(***************************************************************************)
EXTENDS Integers, Sequences, FiniteSets

\* ------------------------------------------------------------------ bounds

\* Application contexts that may ever be pushed.
MaxCtx == 2
\* HTTP sessions that may ever be created by CloudFlare.session().
MaxSessions == 3
\* Items the server holds for one traversal (two full pages).
MaxItems == 4
\* Length at which the observation log of sent requests stops growing.
MaxLog == 4
\* Traversals of one query object that run to their end; after that many
\* no further traversal of it is started.
MaxDrains == 2
\* Page size the server declares in result_info.per_page.
PerPage == 2
\* The last page number the server knows.
MaxPage == 3

\* ------------------------------------------------------- program constants

Timeout == 20
BaseUrl == "https://api.cloudflare.com/client/v4/"
Methods == {"GET", "POST", "PUT", "DELETE"}

\* Configuration values read by init_app.
AuthEmail == "user@example.org"
AuthKey == "secret"

\* ------------------------------------------------------------ input domains

Items == 1..MaxItems
Paths == {<<"zones", "ABC">>}
FilterKeys == {"name"}
ValueKeys == {"paused"}
Vals == {1, 2}
Statuses == {200, 403}

\* Keyword arguments of one call: up to two distinct keys, in call order.
Kwargs(keys) ==
    LET one == {<< <<k, v>> >> : k \in keys, v \in Vals}
        two == {a \o b : a \in one, b \in one}
    IN  {<<>>} \cup one \cup {kw \in two : kw[1][1] # kw[2][1]}

\* ------------------------------------------------------------ Python dicts

HasKey(d, k) == \E i \in 1..Len(d) : d[i][1] = k

Get(d, k, default) ==
    IF HasKey(d, k) THEN d[CHOOSE i \in 1..Len(d) : d[i][1] = k][2] ELSE default

\* d[k] = v
DictSet(d, k, v) ==
    IF HasKey(d, k)
    THEN [i \in 1..Len(d) |-> IF d[i][1] = k THEN <<k, v>> ELSE d[i]]
    ELSE Append(d, <<k, v>>)

\* d.update(kw)
RECURSIVE update(_, _)
update(d, kw) ==
    IF kw = <<>> THEN d
    ELSE update(DictSet(d, Head(kw)[1], Head(kw)[2]), Tail(kw))

\* '/'.join(path)
RECURSIVE join(_)
join(path) ==
    IF Len(path) <= 1 THEN path
    ELSE <<Head(path), "/">> \o join(Tail(path))

\* ------------------------------------------------------------------ state

VARIABLES
    \* CloudFlare / Flask application contexts
    stack,      \* _app_ctx_stack: ids of the pushed contexts, top last
    ctxs,       \* attributes of every context created so far
    sessions,   \* the Session objects created so far, by id
    handle,     \* what the last access of CloudFlare.api gave
    \* the APIQuery object in use
    qid,        \* 1 once there is a query object (None: 0)
    qsession,   \* self.session, the id of its Session
    request,    \* self.request
    payload,    \* self.payload
    \* the terminal operation in progress or last completed
    pc,         \* "idle", or "loop": the generator is about to send
    op,         \* the last operation called on the query
    yielded,    \* items the generator has yielded in this traversal
    data,       \* the generator's local: the envelope send() last returned
    ret,        \* what the last operation returned
    exc,        \* the exception the last operation raised
    drains,     \* traversals of this query object that ran to their end
    \* observation
    sent,       \* the prepared requests sent by the current operation
    tick,       \* the parity of the number of requests it has sent
    expected    \* the list results received by the current traversal, joined

scope == <<stack, ctxs, sessions, handle>>
query == <<qid, qsession, request, payload>>
run == <<pc, op, yielded, data, ret, exc, drains, sent, tick, expected>>
vars == <<stack, ctxs, sessions, handle, qid, qsession, request, payload,
          pc, op, yielded, data, ret, exc, drains, sent, tick, expected>>

\* Exceptions. The code states its usage checks with assert, so a misuse of
\* the fluent interface raises Python's AssertionError; the documentation of
\* the interface calls that error UsageError.
NoExc == [kind |-> "none"]
UsageError == [kind |-> "AssertionError"]
AttributeError == [kind |-> "AttributeError"]
KeyError == [kind |-> "KeyError"]

\* class APIError: the exception keeps the response; __str__ reports the
\* request's method and URL, the status code and the raw body.
APIError(response) ==
    [kind |-> "APIError",
     response |-> response,
     method |-> response.request.method,
     url |-> response.request.url,
     status_code |-> response.status_code,
     text |-> response.text]

\* Return values.
NoRet == [kind |-> "none"]
RetSelf(q) == [kind |-> "self", q |-> q]
RetNone == [kind |-> "None"]
RetItem(x) == [kind |-> "item", val |-> x]
RetList(l) == [kind |-> "list", val |-> l]

NoData == [x \in {} |-> 0]

\* ------------------------------------------------- CloudFlare (lines 5-46)

\* CloudFlare.session(): a new Session carrying the two auth headers.
session(ctx) ==
    [headers |-> << <<"X-Auth-Email", AuthEmail>>, <<"X-Auth-Key", AuthKey>> >>,
     timeout |-> Timeout,
     ctx |-> ctx]

\* _app_ctx_stack.top
top == IF stack = <<>> THEN 0 ELSE stack[Len(stack)]

\* The attribute of the context in which the api property looks for a cached
\* handle, and the one under which it stores the handle it creates.
CacheReadAttr == "cloudflare_api"
CacheWriteAttr == "api"

\* getattr(ctx, name, None); None has no attributes.
getattr(ctx, name) == IF ctx = 0 THEN 0 ELSE Get(ctxs[ctx], name, 0)

\* The application pushes a new application context.
PushContext ==
    /\ Len(ctxs) < MaxCtx
    /\ ctxs' = Append(ctxs, <<>>)
    /\ stack' = Append(stack, Len(ctxs) + 1)
    /\ UNCHANGED <<sessions, handle, query, run>>

\* The application pops the top application context.
PopContext ==
    /\ stack # <<>>
    /\ stack' = SubSeq(stack, 1, Len(stack) - 1)
    /\ UNCHANGED <<ctxs, sessions, handle, query, run>>

\* The property CloudFlare.api. An API object holds just its session, so a
\* handle is named by the id of its session.
AccessApi ==
    LET ctx == top
        cached == getattr(ctx, CacheReadAttr)
    IN  IF cached # 0
        THEN /\ handle' = [ctx |-> ctx, api |-> cached, exc |-> NoExc]
             /\ UNCHANGED <<stack, ctxs, sessions, query, run>>
        ELSE /\ Len(sessions) < MaxSessions
             /\ sessions' = Append(sessions, session(ctx))
             /\ IF ctx = 0
                THEN \* ctx.api = ... on None
                     /\ handle' = [ctx |-> 0, api |-> 0, exc |-> AttributeError]
                     /\ UNCHANGED ctxs
                ELSE /\ ctxs' = [ctxs EXCEPT
                                   ![ctx] = DictSet(@, CacheWriteAttr,
                                                    Len(sessions) + 1)]
                     /\ handle' = [ctx |-> ctx, api |-> Len(sessions) + 1,
                                   exc |-> NoExc]
             /\ UNCHANGED <<stack, query, run>>

\* --------------------------------------------------------- API (lines 49-82)

\* requests.Request(method, url): no params, no headers, no data.
Request(method, url) ==
    [method |-> method, url |-> url, params |-> <<>>, headers |-> <<>>,
     data |-> [set |-> FALSE, text |-> <<>>]]

\* API.request(method, path)
api_request(method, path) == Request(method, <<BaseUrl>> \o join(path))

\* APIQuery.__init__ through API.get/post/put/delete: a new query object on
\* the handle's session. The model follows one query object at a time: the
\* new one replaces the one in use.
NewQuery(method, path) ==
    /\ pc = "idle"
    /\ handle.api # 0
    /\ qid' = 1
    /\ qsession' = handle.api
    /\ request' = api_request(method, path)
    /\ payload' = <<>>
    /\ op' = "new"
    /\ yielded' = <<>>
    /\ data' = NoData
    /\ ret' = NoRet
    /\ exc' = NoExc
    /\ drains' = 0
    /\ sent' = <<>>
    /\ tick' = 0
    /\ expected' = <<>>
    /\ UNCHANGED <<scope, pc>>

ApiGet == \E path \in Paths : NewQuery("GET", path)
ApiPost == \E path \in Paths : NewQuery("POST", path)
ApiPut == \E path \in Paths : NewQuery("PUT", path)
ApiDelete == \E path \in Paths : NewQuery("DELETE", path)

\* ---------------------------------------------------- APIQuery (lines 85-157)

\* An operation starts: what the previous one left behind (the finished
\* generator's locals, the requests it sent) is gone.
Forget ==
    /\ yielded' = <<>>
    /\ data' = NoData
    /\ sent' = <<>>
    /\ tick' = 0
    /\ expected' = <<>>

\* A filter() that has lost its usage check.
filter_unchecked(method) == TRUE

\* The usage checks of filter and values (the two assert statements).
filter_allowed(method) == method = "GET"
values_allowed(method) == method \in {"POST", "PUT"}

\* APIQuery.filter(**kwargs)
Filter ==
    /\ pc = "idle"
    /\ qid # 0
    /\ \E kwargs \in Kwargs(FilterKeys) :
         IF filter_allowed(request.method)
         THEN /\ request' = [request EXCEPT !.params = update(@, kwargs)]
              /\ ret' = RetSelf(qid)
              /\ exc' = NoExc
         ELSE /\ exc' = UsageError
              /\ ret' = NoRet
              /\ UNCHANGED request
    /\ op' = "filter"
    /\ Forget
    /\ UNCHANGED <<scope, qid, qsession, payload, pc, drains>>

\* APIQuery.values(**kwargs)
Values ==
    /\ pc = "idle"
    /\ qid # 0
    /\ \E kwargs \in Kwargs(ValueKeys) :
         IF values_allowed(request.method)
         THEN /\ payload' = update(payload, kwargs)
              /\ ret' = RetSelf(qid)
              /\ exc' = NoExc
         ELSE /\ exc' = UsageError
              /\ ret' = NoRet
              /\ UNCHANGED payload
    /\ op' = "values"
    /\ Forget
    /\ UNCHANGED <<scope, qid, qsession, request, pc, drains>>

\* json.dumps(payload): the object's members in insertion order.
dumps(d) == [i \in 1..Len(d) |-> <<d[i][1], ":", d[i][2]>>]

\* A send() that serializes the payload whether or not it is empty.
with_payload_always(req, pl) ==
    [req EXCEPT !.headers = DictSet(@, "Content-Type", "application/json"),
                !.data = [set |-> TRUE, text |-> dumps(pl)]]

\* The first statement of send(): a non-empty payload becomes the request's
\* JSON body, with its Content-Type header.
with_payload(req, pl) ==
    IF pl # <<>>
    THEN [req EXCEPT !.headers = DictSet(@, "Content-Type", "application/json"),
                     !.data = [set |-> TRUE, text |-> dumps(pl)]]
    ELSE req

\* Session.prepare_request(request): the session's headers merged with the
\* request's, the params as given, the data as the body.
prepare_request(sess, req) ==
    [method |-> req.method, url |-> req.url, params |-> req.params,
     headers |-> update(sess.headers, req.headers), body |-> req.data]

\* What the server may answer. The body is not JSON, or is a JSON value
\* that is not an object, or is a JSON object: any subset of the envelope's
\* keys, a result that is one object or a list, with or without a
\* result_info. The server holds the items 1..MaxItems and a list result is
\* the next n of them (n <= PerPage) after those it has served in this
\* traversal. In result_info, page is the page the request asked for (the
\* first when it names none, the last the server knows when it names a
\* later one), and count is whatever the server declares: nothing, a full
\* page, or more.
Page(n) == [i \in 1..n |-> Len(expected) + i]
Results ==
    {[dict |-> x] : x \in {1, 2}}
    \cup {[list |-> Page(n)] : n \in {m \in 0..PerPage :
                                        Len(expected) + m <= MaxItems}}
ServerPage ==
    LET p == Get(request.params, "page", 1)
    IN  IF p <= MaxPage THEN p ELSE MaxPage
Infos == [count : {0, PerPage, PerPage + 1}, per_page : {PerPage},
          page : {ServerPage}]
OkEnvelopes ==
    {[success |-> TRUE]}
    \cup {[success |-> TRUE, result |-> r] : r \in Results}
    \cup {[success |-> TRUE, result |-> r, result_info |-> i] :
            r \in Results, i \in Infos}
FailedEnvelopes == {NoData, [success |-> FALSE], [result |-> [dict |-> 1]]}
Responses ==
    [status_code : Statuses,
     text : {[kind |-> "invalid"], [kind |-> "array"]}
            \cup {[kind |-> "object", obj |-> e] : e \in FailedEnvelopes}]
    \cup [status_code : {200},
          text : {[kind |-> "object", obj |-> e] : e \in OkEnvelopes}]

\* The list a response carries, if it carries one.
ListOf(resp) ==
    IF /\ resp.text.kind = "object"
       /\ "result" \in DOMAIN resp.text.obj
       /\ "list" \in DOMAIN resp.text.obj.result
    THEN resp.text.obj.result.list
    ELSE <<>>

\* The lines of send() after the request is sent: response.json(), the
\* success check, the return.
process_response(resp, prepared) ==
    LET response == [request |-> prepared, status_code |-> resp.status_code,
                     text |-> resp.text]
    IN  IF resp.text.kind = "invalid"
        THEN [exc |-> APIError(response), data |-> NoData]
        ELSE IF resp.text.kind # "object"
        THEN \* data.get on a list, a string, a number or None
             [exc |-> AttributeError, data |-> NoData]
        ELSE IF ~ (IF "success" \in DOMAIN resp.text.obj
                   THEN resp.text.obj.success ELSE FALSE)
        THEN [exc |-> APIError(response), data |-> NoData]
        ELSE [exc |-> NoExc, data |-> resp.text.obj]

\* APIQuery.send() given the server's answer: the request as send() leaves
\* it, the prepared request that went out, and the exception or the data.
send(req, pl, sess, resp) ==
    LET req1 == with_payload(req, pl)
        prepared == prepare_request(sess, req1)
        res == process_response(resp, prepared)
    IN  [request |-> req1, prepared |-> prepared, exc |-> res.exc,
         data |-> res.data]

\* The observation log stops growing at MaxLog entries.
Record(log, x) == IF Len(log) < MaxLog THEN Append(log, x) ELSE log

\* A paging test with its operands exchanged, and a next page that is the
\* page just received.
short_page_swapped(info) == info["per_page"] < info["count"]
next_page_same(info) == info["page"]

\* The paging test of __iter__ (line 140) and the page it asks for next
\* (line 142).
short_page(info) == info["count"] < info["per_page"]
next_page(info) == info["page"] + 1

\* Loop bodies with a slip: one that pages whatever the method, one that
\* checks the method only once the page has proved full, and one that does
\* not leave the loop after a single object.
loop_body_unchecked(req, d) ==
    IF "result" \notin DOMAIN d
    THEN [yield |-> <<>>, then |-> "raise", exc |-> KeyError, request |-> req]
    ELSE IF "dict" \in DOMAIN d.result
    THEN [yield |-> <<d.result.dict>>, then |-> "break", exc |-> NoExc,
          request |-> req]
    ELSE IF "result_info" \notin DOMAIN d \/ short_page(d.result_info)
    THEN [yield |-> d.result.list, then |-> "break", exc |-> NoExc,
          request |-> req]
    ELSE [yield |-> d.result.list, then |-> "continue", exc |-> NoExc,
          request |-> [req EXCEPT !.params =
                           DictSet(@, "page", next_page(d.result_info))]]
loop_body_check_late(req, d) ==
    IF "result" \notin DOMAIN d
    THEN [yield |-> <<>>, then |-> "raise", exc |-> KeyError, request |-> req]
    ELSE IF "dict" \in DOMAIN d.result
    THEN [yield |-> <<d.result.dict>>, then |-> "break", exc |-> NoExc,
          request |-> req]
    ELSE IF "result_info" \notin DOMAIN d \/ short_page(d.result_info)
    THEN [yield |-> d.result.list, then |-> "break", exc |-> NoExc,
          request |-> req]
    ELSE IF req.method # "GET"
    THEN [yield |-> d.result.list, then |-> "raise", exc |-> UsageError,
          request |-> req]
    ELSE [yield |-> d.result.list, then |-> "continue", exc |-> NoExc,
          request |-> [req EXCEPT !.params =
                           DictSet(@, "page", next_page(d.result_info))]]
loop_body_no_break(req, d) ==
    LET items == IF "result" \notin DOMAIN d THEN <<>>
                 ELSE IF "dict" \in DOMAIN d.result THEN <<d.result.dict>>
                 ELSE d.result.list
    IN  IF "result" \notin DOMAIN d
        THEN [yield |-> <<>>, then |-> "raise", exc |-> KeyError,
              request |-> req]
        ELSE IF "result_info" \notin DOMAIN d
        THEN [yield |-> items, then |-> "break", exc |-> NoExc,
              request |-> req]
        ELSE IF req.method # "GET"
        THEN [yield |-> items, then |-> "raise", exc |-> UsageError,
              request |-> req]
        ELSE IF short_page(d.result_info)
        THEN [yield |-> items, then |-> "break", exc |-> NoExc,
              request |-> req]
        ELSE [yield |-> items, then |-> "continue", exc |-> NoExc,
              request |-> [req EXCEPT !.params =
                               DictSet(@, "page", next_page(d.result_info))]]

\* One pass through the body of the while loop of __iter__, from the data
\* send() returned: the items it yields, how it leaves the loop body
\* ("break", "raise" or "continue") and the request as it leaves it.
loop_body(req, d) ==
    IF "result" \notin DOMAIN d
    THEN [yield |-> <<>>, then |-> "raise", exc |-> KeyError, request |-> req]
    ELSE IF "dict" \in DOMAIN d.result
    THEN [yield |-> <<d.result.dict>>, then |-> "break", exc |-> NoExc,
          request |-> req]
    ELSE IF "result_info" \notin DOMAIN d
    THEN [yield |-> d.result.list, then |-> "break", exc |-> NoExc,
          request |-> req]
    ELSE IF req.method # "GET"
    THEN [yield |-> d.result.list, then |-> "raise", exc |-> UsageError,
          request |-> req]
    ELSE IF short_page(d.result_info)
    THEN [yield |-> d.result.list, then |-> "break", exc |-> NoExc,
          request |-> req]
    ELSE [yield |-> d.result.list, then |-> "continue", exc |-> NoExc,
          request |-> [req EXCEPT !.params =
                           DictSet(@, "page", next_page(d.result_info))]]

\* A query whose generator is kept: once a traversal has run to its end,
\* a later one finds it exhausted.
Start_once(o) ==
    /\ pc = "idle"
    /\ qid # 0
    /\ drains < MaxDrains
    /\ pc' = IF drains >= 1 THEN "idle" ELSE "loop"
    /\ op' = o
    /\ yielded' = <<>>
    /\ data' = NoData
    /\ ret' = IF drains = 0 THEN NoRet
              ELSE IF o = "all" THEN RetList(<<>>) ELSE RetNone
    /\ exc' = NoExc
    /\ drains' = IF drains >= 1 THEN drains + 1 ELSE drains
    /\ sent' = <<>>
    /\ tick' = 0
    /\ expected' = <<>>
    /\ UNCHANGED <<scope, query>>

\* iter(self): a new generator, whose body has not started.
Start(o) ==
    /\ pc = "idle"
    /\ qid # 0
    /\ drains < MaxDrains
    /\ pc' = "loop"
    /\ op' = o
    /\ yielded' = <<>>
    /\ data' = NoData
    /\ ret' = NoRet
    /\ exc' = NoExc
    /\ sent' = <<>>
    /\ tick' = 0
    /\ expected' = <<>>
    /\ UNCHANGED <<scope, query, drains>>

\* APIQuery.all(): list(self); iterating the query drains it the same way.
All == Start("all")

\* APIQuery.first(): next(iter(self), None)
First == Start("first")

\* The generator runs one pass of its loop: send(), then the loop body. In
\* first() the generator stops at its first yield and is dropped there; in
\* all() every item is taken and the body runs to its end.
IterStep ==
    /\ pc = "loop"
    /\ \E resp \in Responses :
         /\ LET s == send(request, payload, sessions[qsession], resp)
                b == loop_body(s.request, s.data)
            IN  /\ sent' = Record(sent, s.prepared)
                /\ tick' = 1 - tick
                /\ IF s.exc.kind # "none"
                   THEN /\ request' = s.request
                        /\ exc' = s.exc
                        /\ ret' = NoRet
                        /\ pc' = "idle"
                        /\ UNCHANGED <<yielded, data, drains, expected>>
                   ELSE /\ data' = s.data
                        /\ expected' = expected \o ListOf(resp)
                        /\ IF op = "first" /\ b.yield # <<>>
                           THEN /\ request' = s.request
                                /\ yielded' = Append(yielded, Head(b.yield))
                                /\ ret' = RetItem(Head(b.yield))
                                /\ exc' = NoExc
                                /\ pc' = "idle"
                                /\ UNCHANGED drains
                           ELSE /\ request' = b.request
                                /\ yielded' = yielded \o b.yield
                                /\ exc' = b.exc
                                /\ pc' = IF b.then = "continue"
                                         THEN "loop" ELSE "idle"
                                /\ ret' = IF b.then # "break" THEN NoRet
                                          ELSE IF op = "all"
                                          THEN RetList(yielded \o b.yield)
                                          ELSE RetNone
                                /\ drains' = IF b.then = "break"
                                             THEN drains + 1 ELSE drains
    /\ UNCHANGED <<scope, qid, qsession, payload, op>>

\* APIQuery.execute(): one send(), whose data is dropped.
Execute ==
    /\ pc = "idle"
    /\ qid # 0
    /\ \E resp \in Responses :
         LET s == send(request, payload, sessions[qsession], resp)
         IN  /\ request' = s.request
             /\ sent' = <<s.prepared>>
             /\ tick' = 1
             /\ exc' = s.exc
    /\ op' = "execute"
    /\ ret' = NoRet
    /\ yielded' = <<>>
    /\ data' = NoData
    /\ expected' = <<>>
    /\ UNCHANGED <<scope, qid, qsession, payload, pc, drains>>

\* ------------------------------------------------------------ specifications

NoRequest == Request("", <<>>)

NoQuery ==
    /\ qid = 0
    /\ qsession = 0
    /\ request = NoRequest
    /\ payload = <<>>
    /\ pc = "idle"
    /\ op = "none"
    /\ yielded = <<>>
    /\ data = NoData
    /\ ret = NoRet
    /\ exc = NoExc
    /\ drains = 0
    /\ sent = <<>>
    /\ tick = 0
    /\ expected = <<>>

\* The extension object is constructed and configured; no application
\* context is pushed yet.
ScopeInit ==
    /\ stack = <<>>
    /\ ctxs = <<>>
    /\ sessions = <<>>
    /\ handle = [ctx |-> 0, api |-> 0, exc |-> NoExc]
    /\ NoQuery

ScopeNext == PushContext \/ PopContext \/ AccessApi

\* The application contexts and the api property.
ScopeSpec == ScopeInit /\ [][ScopeNext]_vars

\* One application context is pushed and CloudFlare.api has been read in it
\* once (PushContext, then AccessApi, from ScopeInit).
Init ==
    /\ stack = <<1>>
    /\ ctxs = << << <<CacheWriteAttr, 1>> >> >>
    /\ sessions = <<session(1)>>
    /\ handle = [ctx |-> 1, api |-> 1, exc |-> NoExc]
    /\ NoQuery

Next ==
    \/ ApiGet
    \/ ApiPost
    \/ ApiPut
    \/ ApiDelete
    \/ Filter
    \/ Values
    \/ All
    \/ First
    \/ IterStep
    \/ Execute

\* The queries made through one API handle.
Spec == Init /\ [][Next]_vars

\* A generator that has been started runs on: every send() blocks only until
\* the server answers.
FairSpec == Spec /\ WF_vars(IterStep)

\* ------------------------------------------------------------------ claims

\* The last operation has come back to its caller / came back without raising.
Finished(o) == pc = "idle" /\ op = o
Returned == exc.kind = "none"

\* The envelope the generator holds has a list / a single object as result.
ListResult(d) == "result" \in DOMAIN d /\ "list" \in DOMAIN d.result
DictResult(d) == "result" \in DOMAIN d /\ "dict" \in DOMAIN d.result
HasInfo(d) == "result_info" \in DOMAIN d

\* The page parameter of a request (0: none).
PageParam(r) == Get(r.params, "page", 0)

\* A step in which a request follows an earlier one of the same traversal
\* (while the log still grows).
FurtherRequest == sent # <<>> /\ Len(sent') > Len(sent)

\* C1: in a traversal of a GET query, after a list result whose result_info
\* has count = per_page the query's page parameter is result_info.page + 1,
\* and the next request carries it; and when all() returns after list
\* results only, it returns the items of the pages received, in the order
\* received and in page order, each exactly once.
C1_PageSet ==
    (/\ pc = "loop"
     /\ ListResult(data) /\ HasInfo(data)
     /\ data.result_info.count = data.result_info.per_page)
    => PageParam(request) = data.result_info.page + 1
C1_Drained ==
    (Finished("all") /\ Returned /\ ListResult(data))
    => /\ ret = RetList(expected)
       /\ expected = [i \in 1..Len(expected) |-> i]
C1_NextRequest ==
    (/\ FurtherRequest
     /\ ListResult(data) /\ HasInfo(data)
     /\ data.result_info.count = data.result_info.per_page)
    => PageParam(sent'[Len(sent')]) = data.result_info.page + 1
C1_Paging == [](C1_PageSet /\ C1_Drained) /\ [][C1_NextRequest]_vars

\* all() on a GET query returned four items after three requests, for the
\* first page, page 2 and page 3: two full pages and an empty one.
C1_Witness ==
    /\ Finished("all") /\ Returned
    /\ request.method = "GET"
    /\ Len(sent) = 3
    /\ PageParam(sent[1]) = 0 /\ PageParam(sent[2]) = 2 /\ PageParam(sent[3]) = 3
    /\ ret = RetList(<<1, 2, 3, 4>>)
    /\ ListResult(data) /\ data.result.list = <<>>
    /\ HasInfo(data) /\ data.result_info.count = 0

\* When a response lets the traversal go on: the code goes on unless
\* count < per_page, the claim says only when count = per_page.
Full(d) ==
    ListResult(d) /\ HasInfo(d)
    /\ d.result_info.count >= d.result_info.per_page
ExactlyFull(d) ==
    ListResult(d) /\ HasInfo(d)
    /\ d.result_info.count = d.result_info.per_page

\* C2 as stated: a further request follows a response only if the method is
\* GET and the response has a list result and a result_info with
\* count = per_page.
C2_AsStated ==
    [][FurtherRequest => (request.method = "GET" /\ ExactlyFull(data))]_vars

\* C2, amended: a further request follows a response only if the method is
\* GET and the response has a list result and a result_info with
\* count >= per_page; after any other response the traversal is over; and
\* all(), when it returns after one request that brought a list result,
\* returns exactly that list.
C2_OnlyIfFull ==
    FurtherRequest => (request.method = "GET" /\ Full(data))
C2_Stops ==
    (pc = "loop" /\ sent # <<>>) => (request.method = "GET" /\ Full(data))
C2_OnePage ==
    (Finished("all") /\ Returned /\ Len(sent) = 1 /\ ListResult(data))
    => (ret = RetList(data.result.list) /\ ~ (HasInfo(data) /\ Full(data)))
C2_Amended == [](C2_Stops /\ C2_OnePage) /\ [][C2_OnlyIfFull]_vars

\* all() returned the two items of a single page whose result_info declared
\* count < per_page.
C2_Witness ==
    /\ Finished("all") /\ Returned
    /\ Len(sent) = 1
    /\ ListResult(data) /\ HasInfo(data)
    /\ data.result_info.count < data.result_info.per_page
    /\ ret = RetList(<<1, 2>>)

\* C3: when send() has returned a single object, the traversal is over and
\* has not failed, whatever the method and the result_info; when it was the
\* answer to the traversal's first request, one item was yielded, all()
\* returns the list of that one item and first() returns the item.
C3_SingleObject ==
    DictResult(data)
    => /\ pc = "idle"
       /\ Returned
       /\ yielded = Append(expected, data.result.dict)
       /\ Len(sent) = 1
          => /\ yielded = <<data.result.dict>>
             /\ op = "all" => ret = RetList(<<data.result.dict>>)
             /\ op = "first" => ret = RetItem(data.result.dict)

\* first() on a PUT query got the object 2 with a full result_info and
\* returned it after one request.
C3_Witness ==
    /\ Finished("first")
    /\ request.method = "PUT"
    /\ DictResult(data) /\ data.result.dict = 2
    /\ HasInfo(data) /\ Full([data EXCEPT !.result = [list |-> <<>>]])
    /\ Len(sent) = 1
    /\ ret = RetItem(2)

\* C4: execute() (one send()) either returns or fails with APIError, which
\* carries the request's method and URL and the response's status code and
\* body; it fails with no other kind of error.
C4_OnlyAPIError ==
    Finished("execute")
    => /\ exc.kind \in {"none", "APIError"}
       /\ exc.kind = "APIError"
          => /\ exc.method = request.method
             /\ exc.url = request.url
             /\ exc.status_code \in Statuses

\* C5: filter() raises the usage error unless the method is GET, values()
\* unless it is POST or PUT; a rejected call changes neither the params nor
\* the payload and sends nothing; an accepted call returns the query object
\* itself and leaves in the dict exactly the old keys and the call's keys,
\* the call's values winning.
Keys(d) == {d[i][1] : i \in 1..Len(d)}
Merged(old, new) ==
    \E kw \in Kwargs(Keys(new)) :
        /\ Keys(new) = Keys(old) \cup Keys(kw)
        /\ \A k \in Keys(new) :
              Get(new, k, 0) = IF HasKey(kw, k) THEN Get(kw, k, 0)
                               ELSE Get(old, k, 0)
C5_Outcome ==
    /\ op = "filter"
       => IF request.method = "GET"
          THEN Returned /\ ret = RetSelf(qid)
          ELSE exc = UsageError /\ ret = NoRet
    /\ op = "values"
       => IF request.method \in {"POST", "PUT"}
          THEN Returned /\ ret = RetSelf(qid)
          ELSE exc = UsageError /\ ret = NoRet
    /\ op \in {"filter", "values"} => sent = <<>>
C5_Effect ==
    /\ op' = "filter"
       => /\ payload' = payload
          /\ IF request.method = "GET"
             THEN /\ Merged(request.params, request'.params)
                  /\ request' = [request EXCEPT !.params = request'.params]
             ELSE request' = request
    /\ op' = "values"
       => /\ request' = request
          /\ IF request.method \in {"POST", "PUT"}
             THEN Merged(payload, payload')
             ELSE payload' = payload
C5_Usage == []C5_Outcome /\ [][C5_Effect]_vars

\* filter() was rejected on a POST query that holds a value.
C5_Witness ==
    /\ op = "filter"
    /\ request.method = "POST"
    /\ exc = UsageError
    /\ payload = << <<"paused", 2>> >>

\* C6 (ScopeSpec): in one application context at most one session is ever
\* created: after the first access of api, later accesses in that context
\* find the handle cached and create nothing.
C6_OneSessionPerScope ==
    \A c \in 1..Len(ctxs) :
        Cardinality({i \in 1..Len(sessions) : sessions[i].ctx = c}) <= 1

\* C7 as stated: once a traversal of the query has run to its end, a later
\* traversal of the same query object yields nothing.
C7_AsStated ==
    (drains >= 2 \/ (drains >= 1 /\ pc = "loop")) => yielded = <<>>

\* C7, amended: a later traversal of the same query object is a new one: it
\* starts from the request as the earlier operations left it, sends it
\* again, and all() returns the items the server then sends.
C7_Again ==
    (drains >= 2 /\ pc = "idle" /\ op \in {"all", "first"})
    => /\ sent # <<>>
       /\ (op = "all" /\ Returned /\ ListResult(data)) => ret = RetList(expected)
C7_SameRequest == (pc = "idle" /\ pc' = "loop") => request' = request
C7_Amended == []C7_Again /\ [][C7_SameRequest]_vars

\* A second all() on a drained GET query asked for page 2, where the first
\* traversal had stopped, and returned the two items the server then sent.
C7_Witness ==
    /\ drains = 2
    /\ Finished("all") /\ Returned
    /\ Len(sent) = 1 /\ PageParam(sent[1]) = 2
    /\ ret = RetList(<<1, 2>>)

\* C8: a request goes out with a body exactly when the payload is not
\* empty, and with a Content-Type header exactly then; the body lists the
\* whole payload, member by member, and the header is application/json;
\* execute() sends exactly one request.
C8_Body ==
    /\ \A i \in 1..Len(sent) :
          /\ sent[i].body.set <=> payload # <<>>
          /\ HasKey(sent[i].headers, "Content-Type") <=> payload # <<>>
          /\ payload # <<>>
             => /\ Get(sent[i].headers, "Content-Type", "") = "application/json"
                /\ Len(sent[i].body.text) = Len(payload)
                /\ \A j \in 1..Len(payload) :
                      sent[i].body.text[j] = <<payload[j][1], ":", payload[j][2]>>
    /\ Finished("execute") => Len(sent) = 1

\* execute() on a PUT query with values(paused=1) sent one request with
\* that JSON body.
C8_Witness ==
    /\ Finished("execute") /\ Returned
    /\ request.method = "PUT"
    /\ payload = << <<"paused", 1>> >>
    /\ Len(sent) = 1
    /\ sent[1].body = [set |-> TRUE, text |-> << <<"paused", ":", 1>> >>]

\* C9 as stated (FairSpec): every traversal that has started ends.
C9_AsStated == (pc = "loop") ~> (pc = "idle")

\* C9, amended (FairSpec): a traversal goes on only as long as the server
\* keeps answering a GET query with list results whose result_info has
\* count >= per_page; any other answer ends it.
C9_Amended == []<>(pc = "idle" \/ (request.method = "GET" /\ Full(data)))

\* The only page was full: all() sent one more request, for page 2, got an
\* empty page with count 0 and returned the two items.
C9_Witness ==
    /\ Finished("all") /\ Returned
    /\ Len(sent) = 2 /\ PageParam(sent[2]) = 2
    /\ ListResult(data) /\ data.result.list = <<>>
    /\ HasInfo(data) /\ data.result_info.count = 0
    /\ ret = RetList(<<1, 2>>)

\* C10: in a traversal of a query that is not GET, once the generator is
\* past the items of a list result that came with a result_info it raises
\* the usage error, full page or not: the page's items have been yielded,
\* one request was sent and the request has no page parameter. After a
\* single object or a result without result_info it does not raise it.
C10_NonGet ==
    (request.method # "GET" /\ op \in {"all", "first"} /\ data # NoData)
    => /\ pc = "idle"
       /\ Len(sent) = 1
       /\ PageParam(request) = 0
       /\ IF /\ ListResult(data) /\ HasInfo(data)
             /\ ~ (op = "first" /\ data.result.list # <<>>)
          THEN exc = UsageError /\ yielded = data.result.list
          ELSE exc # UsageError

\* all() on a DELETE query got a page of two items declared short, yielded
\* them and raised the usage error.
C10_Witness ==
    /\ Finished("all")
    /\ request.method = "DELETE"
    /\ exc = UsageError
    /\ yielded = <<1, 2>>
    /\ HasInfo(data) /\ data.result_info.count < data.result_info.per_page
    /\ Len(sent) = 1

====
